---------------------------- MODULE Spec2Model ----------------------------
(***************************************************************************)
(* Model of src/bot.py: the join-request pipeline (handle_join_request),   *)
(* the admin commands (users_cmd, details_cmd, promotion_cmd,              *)
(* broadcast_cmd), the JSON store DATA guarded by DATA_LOCK, and the       *)
(* synchronous retry/backoff loop of main().                               *)
(*                                                                         *)
(* Handlers are coroutines.  A coroutine runs without interruption from    *)
(* one await to the next, so every action below is the code between two    *)
(* awaits of one handler; handlers interleave only at awaits.              *)
(*                                                                         *)
(* A user record is modelled by its "id" and its "approved_at"; full_name  *)
(* and username are written with the record in the same statement and are  *)
(* never read by the handlers.  Message texts are not modelled, only the   *)
(* calls that send them and whether each returns or raises.                *)
(***************************************************************************)
EXTENDS Integers, Sequences, FiniteSets, TLC

(***************************************************************************)
(* Bounds of the model.                                                    *)
(***************************************************************************)
\* how many faults of run_polling() the runner is followed through
MaxRestarts == 8
\* how many join requests are dispatched in all
MaxJoins == 2
\* how many admin commands are dispatched in all
MaxCommands == 1
\* how many writes of PERSIST_FILE fail in all
MaxWriteFailures == 1

(***************************************************************************)
(* Program constants of main().                                            *)
(***************************************************************************)
BackoffBase == 5
BackoffCap == 120

\* requester identities seen in join requests; NoUser is from_user = None,
\* for which the handler computes user_id = 0
NoUser == 0
Users == {1, 2}
\* target chats of join requests and the titles they carry
Chats == {10, 20}
Titles == {"A", "B"}
\* chat 10 is seen under both titles, chat 20 under one
TitlesOf(c) == IF c = 10 THEN Titles ELSE {"A"}
\* texts of /promotion and /broadcast after " ".join(args).strip()
Texts == {"", "hi"}
\* callers of admin commands: effective_user None, an admin, somebody else
NoCaller == 0
ADMIN_IDS == {7}
Callers == {NoCaller, 7, 8}
\* the slots in which join-request pipelines run side by side
Slots == {1, 2}
\* values of the environment variable DATA_CHANNEL_ID (0: not configured)
DataChannelIds == {0, 900}
\* values of the environment variable LOG_CHANNEL_ID (0: not configured)
LogChannelIds == {0, 901}

VARIABLES
    DATA,          \* the global dict DATA
    FILE,          \* PERSIST_FILE: missing, malformed, or JSON content
    DATA_LOCK,     \* asyncio.Lock: TRUE while locked
    DATA_CHANNEL_ID, \* configuration, fixed at start
    LOG_CHANNEL_ID,  \* configuration, fixed at start
    jr,            \* per slot: the locals of one run of handle_join_request
    cmd,           \* the locals of the admin command handler in progress
    njoins,        \* join requests dispatched so far
    ncmds,         \* admin commands dispatched so far
    nfailed,       \* writes of PERSIST_FILE that failed so far
    rpc,           \* main(): position of the runner in its while-loop
    backoff,       \* main(): the local variable backoff
    restarts,      \* number of time.sleep(backoff) calls main() has made
    slept,         \* the calls of time.sleep so far: fault class and interval
    fault          \* which except clause of main() is being executed

storeVars == <<DATA, FILE, DATA_LOCK, DATA_CHANNEL_ID, LOG_CHANNEL_ID>>
handlerVars == <<DATA, FILE, DATA_LOCK, DATA_CHANNEL_ID, LOG_CHANNEL_ID, jr,
                 cmd, njoins, ncmds, nfailed>>
runnerVars == <<rpc, backoff, restarts, slept, fault>>

vars == <<DATA, FILE, DATA_LOCK, DATA_CHANNEL_ID, LOG_CHANNEL_ID, jr, cmd,
          njoins, ncmds, nfailed,
          rpc, backoff, restarts, slept, fault>>

Min(a, b) == IF a <= b THEN a ELSE b

RECURSIVE Pow2(_)
Pow2(n) == IF n = 0 THEN 1 ELSE 2 * Pow2(n - 1)

(***************************************************************************)
(* The store: DATA = {"promotion_message": str, "chats": {str(chat_id):    *)
(* {"title": str, "users": [{"id": int, ...}]}}}, lines 72-104.            *)
(***************************************************************************)
\* str(chat_id), the key of a chat in DATA["chats"]
StrOf(c) == CASE c = 10 -> "10" [] c = 20 -> "20" [] OTHER -> "0"

EmptyData == [promotion_message |-> "", chats |-> <<>>]

\* the ids of a users list, in order
RECURSIVE IdsOf(_)
IdsOf(us) == IF us = <<>> THEN {} ELSE {Head(us).id} \cup IdsOf(Tail(us))

\* line 262: the record appended for a requester.  full_name and username
\* come with the request and are stored like approved_at, which stands
\* for the three.
Record(user_id, approved_at) ==
    [id |-> user_id, approved_at |-> approved_at]

\* any(u.get("id") == user_id for u in chat_entry["users"])
Exists(us, user_id) == \E i \in 1..Len(us) : us[i].id = user_id

\* the users of the entry of a chat, <<>> without entry
UsersOf(data, chat_id) ==
    IF StrOf(chat_id) \in DOMAIN data.chats
    THEN data.chats[StrOf(chat_id)].users ELSE <<>>

\* chats.setdefault(key, {"title": channel_title, "users": []})
SetDefault(chats, key, title) ==
    IF key \in DOMAIN chats THEN chats
    ELSE [k \in DOMAIN chats \cup {key} |->
            IF k = key THEN [title |-> title, users |-> <<>>] ELSE chats[k]]

\* lines 257-262: the body of the persist section of handle_join_request
RecordJoinNoCheck(data, chat_id, channel_title, user_id, approved_at) ==
    LET key == StrOf(chat_id)
        chats == SetDefault(data.chats, key, channel_title)
        entry == chats[key]
        users == IF user_id # 0
                 THEN Append(entry.users, Record(user_id, approved_at))
                 ELSE entry.users
    IN [data EXCEPT !.chats =
            [chats EXCEPT ![key] = [title |-> channel_title, users |-> users]]]

RecordJoinStaleTitle(data, chat_id, channel_title, user_id, approved_at) ==
    LET key == StrOf(chat_id)
        chats == SetDefault(data.chats, key, channel_title)
        entry == chats[key]
        users == IF ~Exists(entry.users, user_id) /\ user_id # 0
                 THEN Append(entry.users, Record(user_id, approved_at))
                 ELSE entry.users
    IN [data EXCEPT !.chats =
            [chats EXCEPT ![key] = [title |-> entry.title, users |-> users]]]

RecordJoinRewrite(data, chat_id, channel_title, user_id, approved_at) ==
    LET key == StrOf(chat_id)
        chats == SetDefault(data.chats, key, channel_title)
        entry == chats[key]
        users == IF user_id = 0 THEN entry.users
                 ELSE IF ~Exists(entry.users, user_id)
                 THEN Append(entry.users, Record(user_id, approved_at))
                 ELSE [i \in 1..Len(entry.users) |->
                          IF entry.users[i].id = user_id
                          THEN Record(user_id, approved_at)
                          ELSE entry.users[i]]
    IN [data EXCEPT !.chats =
            [chats EXCEPT ![key] = [title |-> channel_title, users |-> users]]]

RecordJoin(data, chat_id, channel_title, user_id, approved_at) ==
    LET key == StrOf(chat_id)
        chats == SetDefault(data.chats, key, channel_title)
        entry == chats[key]
        users == IF ~Exists(entry.users, user_id) /\ user_id # 0
                 THEN Append(entry.users, Record(user_id, approved_at))
                 ELSE entry.users
    IN [data EXCEPT !.chats =
            [chats EXCEPT ![key] = [title |-> channel_title, users |-> users]]]

\* chat_entry["users"] (line 260) raises KeyError: the chat has an entry,
\* and the entry has no "users"
LacksUsers(data, chat_id) ==
    /\ StrOf(chat_id) \in DOMAIN data.chats
    /\ "users" \notin DOMAIN data.chats[StrOf(chat_id)]

\* lines 257-259 alone: setdefault finds the entry, the title is set
SetTitle(data, chat_id, channel_title) ==
    [data EXCEPT !.chats[StrOf(chat_id)].title = channel_title]

\* PERSIST_FILE as the program finds or leaves it
MissingFile == [kind |-> "missing", json |-> <<>>]
MalformedFile == [kind |-> "malformed", json |-> <<>>]
\* well-formed JSON that is no object (a list, a number, null): lines 88
\* and 89 raise TypeError on it
NonObjectFile == [kind |-> "nonobject", json |-> <<>>]
JsonFile(obj) == [kind |-> "json", json |-> obj]

\* load_data(), lines 81-96: no file or unreadable content give the empty
\* default; a JSON object is taken as it is and gets the keys it lacks
LoadDataTwoKeys(file) ==
    IF file.kind # "json" THEN EmptyData
    ELSE [promotion_message |->
              IF "promotion_message" \in DOMAIN file.json
              THEN file.json.promotion_message ELSE "",
          chats |->
              IF "chats" \in DOMAIN file.json THEN file.json.chats ELSE <<>>]

LoadData(file) ==
    IF file.kind # "json" THEN EmptyData
    ELSE file.json @@ EmptyData

\* save_data(), lines 99-104: json.dump(DATA) into PERSIST_FILE; an
\* exception is logged and swallowed (here the failed write leaves the old
\* content)
SaveDataSkip(file, data, ok) == file

SaveData(file, data, ok) == IF ok THEN JsonFile(data) ELSE file

\* the section `async with DATA_LOCK` is entered: the lock is free and taken
AcquireNoWait == DATA_LOCK' = TRUE

Acquire ==
    /\ ~DATA_LOCK
    /\ DATA_LOCK' = TRUE

\* the section is left
Release == DATA_LOCK' = FALSE

(***************************************************************************)
(* main(), lines 355-391.                                                  *)
(***************************************************************************)
InitRunner ==
    /\ rpc = "start"
    /\ backoff = BackoffBase
    /\ restarts = 0
    /\ slept = <<>>
    /\ fault = "none"

\* backoff = min(backoff * 2, 120), lines 378 and 391
NextBackoffUncapped(b) == b * 2

NextBackoff(b) == Min(b * 2, BackoffCap)

\* app.run_polling(...) is entered and polls.
RunPolling ==
    /\ rpc = "start"
    /\ rpc' = "polling"
    /\ fault' = "none"
    /\ UNCHANGED <<backoff, restarts, slept>>
    /\ UNCHANGED handlerVars

\* run_polling() returns: "run_polling exited normally", break.
CleanExit ==
    /\ rpc = "polling"
    /\ rpc' = "exited"
    /\ UNCHANGED <<backoff, restarts, slept, fault>>
    /\ UNCHANGED handlerVars

\* run_polling() raises tg_error.Conflict, lines 363-377: log, best-effort
\* alert (app.bot.send_message is not awaited: nothing is sent, nothing is
\* raised), time.sleep(backoff).
FaultConflict ==
    /\ rpc = "polling"
    /\ restarts < MaxRestarts
    /\ rpc' = "sleep"
    /\ fault' = "Conflict"
    /\ slept' = Append(slept, [class |-> "Conflict", interval |-> backoff])
    /\ restarts' = restarts + 1
    /\ UNCHANGED backoff
    /\ UNCHANGED handlerVars

\* run_polling() raises any other Exception, lines 379-390.
FaultOther ==
    /\ rpc = "polling"
    /\ restarts < MaxRestarts
    /\ rpc' = "sleep"
    /\ fault' = "Exception"
    /\ slept' = Append(slept, [class |-> "Exception", interval |-> backoff])
    /\ restarts' = restarts + 1
    /\ UNCHANGED backoff
    /\ UNCHANGED handlerVars

\* time.sleep returns; backoff = min(backoff * 2, 120); next iteration.
WakeGiveUp ==
    /\ rpc = "sleep"
    /\ backoff' = NextBackoff(backoff)
    /\ rpc' = IF restarts < 3 THEN "start" ELSE "exited"
    /\ UNCHANGED <<restarts, slept, fault>>
    /\ UNCHANGED handlerVars

Wake ==
    /\ rpc = "sleep"
    /\ backoff' = NextBackoff(backoff)
    /\ rpc' = "start"
    /\ UNCHANGED <<restarts, slept, fault>>
    /\ UNCHANGED handlerVars

NextRunner ==
    \/ RunPolling
    \/ CleanExit
    \/ FaultConflict
    \/ FaultOther
    \/ Wake

(***************************************************************************)
(* handle_join_request, lines 233-321.  jr[s] holds the locals of the run  *)
(* in slot s and what the run has asked of the gateway so far: the calls   *)
(* made (dm_tried, fb_tried, log_tried, audit_tried) and how many of the   *)
(* gateway calls of the run raised (faults).                               *)
(***************************************************************************)
IdleRun ==
    [pc |-> "idle", user_id |-> 0, chat_id |-> 0, channel_title |-> "",
     approved_at |-> 0, approved |-> FALSE, promo |-> "", dm_ok |-> FALSE,
     dm_tried |-> 0, fb_tried |-> 0, log_tried |-> 0, audit_tried |-> 0,
     faults |-> 0]

\* line 301: the approval log is posted only if DATA_CHANNEL_ID is set
AfterNotify == IF DATA_CHANNEL_ID # 0 THEN "datalog" ELSE "done"

\* line 290: `if not dm_ok` decides whether the mention is posted
AfterDirectAlways(ok) == "fallback"

AfterDirect(ok) == IF ok THEN AfterNotify ELSE "fallback"

\* lines 295-301: whether the mention was posted or raised, the handler
\* goes on to the approval log
AfterFallbackAbort(ok) == IF ok THEN AfterNotify ELSE "done"

AfterFallback(ok) == AfterNotify

\* lines 118-120: whether the audit log was posted or raised,
\* safe_send_log returns and the handler ends
AfterAuditRaise(ok) == IF ok THEN "done" ELSE "raised"

AfterAudit(ok) == "done"

\* lines 99-104 and 263: save_data() catches the exception of a failed
\* write, so the handler leaves the section as after a write that succeeded
AfterSavePropagate(ok) == IF ok THEN "lock_promo" ELSE "except"

AfterSave(ok) == "lock_promo"

\* A chat_join_request update is dispatched to the handler (line 350).
JoinRequest(s, u, c, t) ==
    /\ jr[s].pc = "idle"
    /\ njoins < MaxJoins
    /\ njoins' = njoins + 1
    /\ jr' = [jr EXCEPT ![s] = [IdleRun EXCEPT !.pc = "approve",
                                   !.user_id = u, !.chat_id = c,
                                   !.channel_title = t]]
    /\ UNCHANGED <<storeVars, cmd, ncmds, nfailed, runnerVars>>

\* datetime.utcnow() (line 252): the handlers never compare times, so the
\* clock has two readings: 0 in the records an earlier process wrote, 1
\* while this process runs
Now == 1

\* lines 239-252: approve_chat_join_request returns or raises; with
\* from_user None the argument req.from_user.id raises before the call.
\* Either exception is logged and the handler goes on to its locals.
Approve(s, ok) ==
    /\ jr[s].pc = "approve"
    /\ (jr[s].user_id = NoUser => ~ok)
    /\ jr' = [jr EXCEPT ![s].approved = ok,
                        ![s].approved_at = Now,
                        ![s].faults = IF ok THEN @ ELSE @ + 1,
                        ![s].pc = "lock_persist"]
    /\ UNCHANGED <<storeVars, cmd, njoins, ncmds, nfailed, runnerVars>>

\* line 256: async with DATA_LOCK
AcquirePersist(s) ==
    /\ jr[s].pc = "lock_persist"
    /\ Acquire
    /\ jr' = [jr EXCEPT ![s].pc = "persist"]
    /\ UNCHANGED <<DATA, FILE, DATA_CHANNEL_ID, LOG_CHANNEL_ID, cmd, njoins,
                   ncmds, nfailed, runnerVars>>

\* lines 257-263: setdefault, title, append unless present, save_data().
\* If the entry of the chat came from a file without "users", line 260
\* raises KeyError after the title was set: the section is left, nothing
\* is written, and the handler is in its outer except clause (line 316).
Persist(s, ok) ==
    /\ jr[s].pc = "persist"
    /\ Release
    /\ IF LacksUsers(DATA, jr[s].chat_id)
       THEN /\ DATA' = SetTitle(DATA, jr[s].chat_id, jr[s].channel_title)
            /\ UNCHANGED <<FILE, nfailed>>
            /\ jr' = [jr EXCEPT ![s].pc = "except"]
       ELSE /\ DATA' = RecordJoin(DATA, jr[s].chat_id, jr[s].channel_title,
                                  jr[s].user_id, jr[s].approved_at)
            /\ FILE' = SaveData(FILE, DATA', ok)
            /\ (~ok => nfailed < MaxWriteFailures)
            /\ nfailed' = IF ok THEN nfailed ELSE nfailed + 1
            /\ jr' = [jr EXCEPT ![s].pc = AfterSave(ok)]
    /\ UNCHANGED <<DATA_CHANNEL_ID, LOG_CHANNEL_ID, cmd, njoins, ncmds, runnerVars>>

\* line 276: async with DATA_LOCK
AcquirePromo(s) ==
    /\ jr[s].pc = "lock_promo"
    /\ Acquire
    /\ jr' = [jr EXCEPT ![s].pc = "promo"]
    /\ UNCHANGED <<DATA, FILE, DATA_CHANNEL_ID, LOG_CHANNEL_ID, cmd, njoins,
                   ncmds, nfailed, runnerVars>>

\* lines 277-282: promo is read, dm_ok = False, the direct message is
\* sent only if user_id is not 0
ReadPromo(s) ==
    /\ jr[s].pc = "promo"
    /\ Release
    /\ jr' = [jr EXCEPT ![s].promo = DATA.promotion_message,
                        ![s].dm_ok = FALSE,
                        ![s].pc = IF jr[s].user_id # 0 THEN "dm"
                                  ELSE "fallback"]
    /\ UNCHANGED <<DATA, FILE, DATA_CHANNEL_ID, LOG_CHANNEL_ID, cmd, njoins,
                   ncmds, nfailed, runnerVars>>

\* lines 283-290: the direct message returns (dm_ok = True) or raises
SendDirect(s, ok) ==
    /\ jr[s].pc = "dm"
    /\ jr' = [jr EXCEPT ![s].dm_tried = @ + 1,
                        ![s].dm_ok = ok,
                        ![s].faults = IF ok THEN @ ELSE @ + 1,
                        ![s].pc = AfterDirect(ok)]
    /\ UNCHANGED <<storeVars, cmd, njoins, ncmds, nfailed, runnerVars>>

\* lines 290-298: if not dm_ok, the mention is posted into the chat
SendFallback(s, ok) ==
    /\ jr[s].pc = "fallback"
    /\ jr' = [jr EXCEPT ![s].fb_tried = @ + 1,
                        ![s].faults = IF ok THEN @ ELSE @ + 1,
                        ![s].pc = AfterFallback(ok)]
    /\ UNCHANGED <<storeVars, cmd, njoins, ncmds, nfailed, runnerVars>>

\* lines 301-314: the approval log is posted to DATA_CHANNEL_ID; a failure
\* is logged
SendApprovalLog(s, ok) ==
    /\ jr[s].pc = "datalog"
    /\ jr' = [jr EXCEPT ![s].log_tried = @ + 1,
                        ![s].faults = IF ok THEN @ ELSE @ + 1,
                        ![s].pc = "done"]
    /\ UNCHANGED <<storeVars, cmd, njoins, ncmds, nfailed, runnerVars>>

\* lines 316-321 and safe_send_log, lines 114-120: the outer except clause
\* logs the exception and calls safe_send_log, which returns at once if
\* LOG_CHANNEL_ID is not set and else posts the audit log, catching what
\* the post raises; then the handler returns.
SafeSendLog(s, ok) ==
    /\ jr[s].pc = "except"
    /\ (LOG_CHANNEL_ID = 0 => ok)
    /\ jr' = [jr EXCEPT ![s].audit_tried =
                              IF LOG_CHANNEL_ID # 0 THEN @ + 1 ELSE @,
                        ![s].faults = IF ok THEN @ ELSE @ + 1,
                        ![s].pc = AfterAudit(ok)]
    /\ UNCHANGED <<storeVars, cmd, njoins, ncmds, nfailed, runnerVars>>

\* the handler returns; its locals are gone
JoinReturn(s) ==
    /\ jr[s].pc = "done"
    /\ jr' = [jr EXCEPT ![s] = IdleRun]
    /\ UNCHANGED <<storeVars, cmd, njoins, ncmds, nfailed, runnerVars>>

\* the steps of the pipeline in slot s; writes end as disk says
JoinStep(s, disk) ==
    \/ \E u \in Users \cup {NoUser}, c \in Chats :
          \E t \in TitlesOf(c) : JoinRequest(s, u, c, t)
    \/ \E ok \in BOOLEAN : Approve(s, ok)
    \/ AcquirePersist(s)
    \/ \E ok \in disk : Persist(s, ok)
    \/ AcquirePromo(s)
    \/ ReadPromo(s)
    \/ \E ok \in BOOLEAN : SendDirect(s, ok)
    \/ \E ok \in BOOLEAN : SendFallback(s, ok)
    \/ \E ok \in BOOLEAN : SendApprovalLog(s, ok)
    \/ JoinReturn(s)

(***************************************************************************)
(* The admin commands, lines 144-227.  cmd holds the locals of the command *)
(* handler in progress; announced is the count the "Broadcasting to N      *)
(* users..." reply carried, attempts and delivered the sends of the loop.  *)
(***************************************************************************)
IdleCmd ==
    [pc |-> "idle", kind |-> "", caller |-> NoCaller, msg |-> "",
     total |-> 0, lines |-> <<>>,
     recipients |-> {}, announced |-> 0, todo |-> {}, sent |-> 0,
     failed |-> 0, attempts |-> [u \in Users |-> 0], delivered |-> {}]

Kinds == {"users", "details", "promotion", "broadcast"}

\* is_admin(user_id), lines 110-111
IsAdminAnyone(user_id) == user_id # NoCaller

IsAdmin(user_id) == user_id # NoCaller /\ user_id \in ADMIN_IDS

\* sum(len(c.get("users", [])) for c in DATA.get("chats", {}).values())
RECURSIVE TotalUsers(_, _)
TotalUsers(chats, keys) ==
    IF keys = {} THEN 0
    ELSE LET k == CHOOSE x \in keys : TRUE
         IN Len(chats[k].users) + TotalUsers(chats, keys \ {k})

\* lines 203-208: the set of the ids of all users of all chats
Recipients(chats) == UNION {IdsOf(chats[k].users) : k \in DOMAIN chats}

\* A command update is dispatched to its handler; the handler returns at
\* once unless the caller is an admin (lines 145-147, 158-160, 178-180,
\* 193-195; position "denied", from which it only returns); /broadcast
\* without text is answered with the usage line.
Command(kind, caller, msg) ==
    /\ cmd.pc = "idle"
    /\ ncmds < MaxCommands
    /\ ncmds' = ncmds + 1
    /\ cmd' = IF ~IsAdmin(caller)
              THEN [IdleCmd EXCEPT !.pc = "denied", !.kind = kind,
                                   !.caller = caller, !.msg = msg]
              ELSE IF kind = "broadcast" /\ msg = ""
                   THEN [IdleCmd EXCEPT !.pc = "usage", !.kind = kind,
                                        !.caller = caller]
              ELSE [IdleCmd EXCEPT !.pc = "lock", !.kind = kind,
                                   !.caller = caller, !.msg = msg]
    /\ UNCHANGED <<storeVars, jr, njoins, nfailed, runnerVars>>

\* lines 150, 162, 183, 202: async with DATA_LOCK
CmdAcquire ==
    /\ cmd.pc = "lock"
    /\ Acquire
    /\ cmd' = [cmd EXCEPT !.pc = "section"]
    /\ UNCHANGED <<DATA, FILE, DATA_CHANNEL_ID, LOG_CHANNEL_ID, jr, njoins,
                   ncmds, nfailed, runnerVars>>

\* users_cmd, line 151
UsersSection ==
    /\ cmd.pc = "section" /\ cmd.kind = "users"
    /\ Release
    /\ cmd' = [cmd EXCEPT !.total = TotalUsers(DATA.chats, DOMAIN DATA.chats),
                          !.pc = "reply"]
    /\ UNCHANGED <<DATA, FILE, DATA_CHANNEL_ID, LOG_CHANNEL_ID, jr, njoins,
                   ncmds, nfailed, runnerVars>>

\* details_cmd, lines 163-167: without chats the reply "No data yet." is
\* awaited inside the section; otherwise the lines are built and the
\* section is left
DetailsSection ==
    /\ cmd.pc = "section" /\ cmd.kind = "details"
    /\ IF DOMAIN DATA.chats = {}
       THEN /\ cmd' = [cmd EXCEPT !.pc = "reply_nodata"]
            /\ UNCHANGED DATA_LOCK
       ELSE /\ cmd' = [cmd EXCEPT !.lines = [k \in DOMAIN DATA.chats |->
                                             Len(DATA.chats[k].users)],
                                  !.pc = "reply"]
            /\ Release
    /\ UNCHANGED <<DATA, FILE, DATA_CHANNEL_ID, LOG_CHANNEL_ID, jr, njoins,
                   ncmds, nfailed, runnerVars>>

\* details_cmd, lines 165-166: the reply returns or raises; return and
\* exception both leave the section
DetailsNoDataKeepLock(ok) ==
    /\ cmd.pc = "reply_nodata"
    /\ DATA_LOCK' = ~ok
    /\ cmd' = [cmd EXCEPT !.pc = IF ok THEN "done" ELSE "raised"]
    /\ UNCHANGED <<DATA, FILE, DATA_CHANNEL_ID, LOG_CHANNEL_ID, jr, njoins,
                   ncmds, nfailed, runnerVars>>

DetailsNoData(ok) ==
    /\ cmd.pc = "reply_nodata"
    /\ Release
    /\ cmd' = [cmd EXCEPT !.pc = IF ok THEN "done" ELSE "raised"]
    /\ UNCHANGED <<DATA, FILE, DATA_CHANNEL_ID, LOG_CHANNEL_ID, jr, njoins,
                   ncmds, nfailed, runnerVars>>

\* promotion_cmd, lines 184-185
PromotionSection(ok) ==
    /\ cmd.pc = "section" /\ cmd.kind = "promotion"
    /\ DATA' = [DATA EXCEPT !.promotion_message = cmd.msg]
    /\ FILE' = SaveData(FILE, DATA', ok)
    /\ (~ok => nfailed < MaxWriteFailures)
    /\ nfailed' = IF ok THEN nfailed ELSE nfailed + 1
    /\ Release
    /\ cmd' = [cmd EXCEPT !.pc = "reply"]
    /\ UNCHANGED <<DATA_CHANNEL_ID, LOG_CHANNEL_ID, jr, njoins, ncmds, runnerVars>>

\* broadcast_cmd, lines 203-208
BroadcastSection ==
    /\ cmd.pc = "section" /\ cmd.kind = "broadcast"
    /\ Release
    /\ cmd' = [cmd EXCEPT !.recipients = Recipients(DATA.chats),
                          !.pc = "announce"]
    /\ UNCHANGED <<DATA, FILE, DATA_CHANNEL_ID, LOG_CHANNEL_ID, jr, njoins,
                   ncmds, nfailed, runnerVars>>

\* lines 154, 174, 189, 198: the reply that ends users_cmd, details_cmd,
\* promotion_cmd and the usage branch of broadcast_cmd returns or raises
Reply(ok) ==
    /\ cmd.pc \in {"reply", "usage"}
    /\ cmd' = [cmd EXCEPT !.pc = IF ok THEN "done" ELSE "raised"]
    /\ UNCHANGED <<storeVars, jr, njoins, ncmds, nfailed, runnerVars>>

\* broadcast_cmd, lines 217-220: "Broadcasting to N users..." with
\* N = len(recipients) returns or raises; then sent = 0, failed = 0 and the
\* loop over the local set recipients starts
AnnounceLive(ok) ==
    /\ cmd.pc = "announce"
    /\ cmd' = IF ~ok THEN [cmd EXCEPT !.pc = "raised"]
              ELSE [cmd EXCEPT !.sent = 0, !.failed = 0,
                               !.announced =
                                   Cardinality(Recipients(DATA.chats)),
                               !.todo = Recipients(DATA.chats),
                               !.pc = IF Recipients(DATA.chats) = {}
                                      THEN "report" ELSE "send"]
    /\ UNCHANGED <<storeVars, jr, njoins, ncmds, nfailed, runnerVars>>

Announce(ok) ==
    /\ cmd.pc = "announce"
    /\ cmd' = IF ~ok THEN [cmd EXCEPT !.pc = "raised"]
              ELSE [cmd EXCEPT !.sent = 0, !.failed = 0,
                               !.announced = Cardinality(cmd.recipients),
                               !.todo = cmd.recipients,
                               !.pc = IF cmd.recipients = {} THEN "report"
                                      ELSE "send"]
    /\ UNCHANGED <<storeVars, jr, njoins, ncmds, nfailed, runnerVars>>

\* One pass of the loop (lines 220-226) for the next uid of the iteration.
\* attempts and delivered record the send_message calls and those that
\* returned.
LoopBodyRetry(c, uid, ok) ==
    [c EXCEPT !.attempts[uid] = @ + 1,
              !.delivered = IF ok THEN @ \cup {uid} ELSE @,
              !.sent = IF ok THEN @ + 1 ELSE @,
              !.failed = IF ok THEN @ ELSE @ + 1,
              !.todo = IF ok THEN @ \ {uid} ELSE @,
              !.pc = IF ok /\ c.todo \ {uid} = {} THEN "report" ELSE "send"]

LoopBodyAbort(c, uid, ok) ==
    [c EXCEPT !.attempts[uid] = @ + 1,
              !.delivered = IF ok THEN @ \cup {uid} ELSE @,
              !.sent = IF ok THEN @ + 1 ELSE @,
              !.failed = IF ok THEN @ ELSE @ + 1,
              !.todo = @ \ {uid},
              !.pc = IF ~ok \/ c.todo \ {uid} = {} THEN "report" ELSE "send"]

LoopBody(c, uid, ok) ==
    [c EXCEPT !.attempts[uid] = @ + 1,
              !.delivered = IF ok THEN @ \cup {uid} ELSE @,
              !.sent = IF ok THEN @ + 1 ELSE @,
              !.failed = IF ok THEN @ ELSE @ + 1,
              !.todo = @ \ {uid},
              !.pc = IF c.todo \ {uid} = {} THEN "report" ELSE "send"]

BroadcastSend(uid, ok) ==
    /\ cmd.pc = "send"
    /\ uid \in cmd.todo
    /\ cmd' = LoopBody(cmd, uid, ok)
    /\ UNCHANGED <<storeVars, jr, njoins, ncmds, nfailed, runnerVars>>

\* line 227: "Broadcast finished. Sent: .., Failed: .." returns or raises
Report(ok) ==
    /\ cmd.pc = "report"
    /\ cmd' = [cmd EXCEPT !.pc = IF ok THEN "done" ELSE "raised"]
    /\ UNCHANGED <<storeVars, jr, njoins, ncmds, nfailed, runnerVars>>

\* the handler has returned, or its exception has gone to the dispatcher
CmdReturn ==
    /\ cmd.pc \in {"done", "raised", "denied"}
    /\ cmd' = IdleCmd
    /\ UNCHANGED <<storeVars, jr, njoins, ncmds, nfailed, runnerVars>>

PromotionStep(disk) ==
    \/ \E caller \in Callers, msg \in Texts : Command("promotion", caller, msg)
    \/ CmdAcquire
    \/ \E ok \in disk : PromotionSection(ok)
    \/ \E ok \in BOOLEAN : Reply(ok)
    \/ CmdReturn

CmdStep ==
    \/ \E kind \in Kinds, caller \in Callers, msg \in Texts :
          /\ kind \in {"users", "details"} => msg = ""
          /\ Command(kind, caller, msg)
    \/ CmdAcquire
    \/ UsersSection
    \/ DetailsSection
    \/ \E ok \in BOOLEAN : DetailsNoData(ok)
    \/ \E ok \in BOOLEAN : PromotionSection(ok)
    \/ BroadcastSection
    \/ \E ok \in BOOLEAN : Reply(ok)
    \/ \E ok \in BOOLEAN : Announce(ok)
    \/ \E uid \in Users, ok \in BOOLEAN : BroadcastSend(uid, ok)
    \/ \E ok \in BOOLEAN : Report(ok)
    \/ CmdReturn

(***************************************************************************)
(* Start: main() has run load_data() (line 339) on the PERSIST_FILE it     *)
(* found: none, or the file an earlier run of the program left.            *)
(***************************************************************************)
Store1 ==
    [promotion_message |-> "",
     chats |-> ("10" :> [title |-> "A",
                         users |-> <<Record(1, 0), Record(2, 0)>>]
                @@ "20" :> [title |-> "A", users |-> <<Record(1, 0)>>])]

StartFiles == {MissingFile, JsonFile(Store1)}

\* main() starts on one of the given files
InitFrom(files) ==
    /\ FILE \in files
    /\ DATA = LoadData(FILE)
    /\ DATA_LOCK = FALSE
    /\ DATA_CHANNEL_ID \in DataChannelIds
    /\ LOG_CHANNEL_ID \in LogChannelIds
    /\ jr = [s \in Slots |-> IdleRun]
    /\ cmd = IdleCmd
    /\ njoins = 0
    /\ ncmds = 0
    /\ nfailed = 0

InitHandlers == InitFrom(StartFiles)

Init == InitHandlers /\ InitRunner

\* Join pipelines side by side, and promotion commands.  save_data()
\* returns nothing and raises nothing, so the outcome of a write reaches
\* only FILE; here every write succeeds, and SpecAdmin has the failing ones.
Next ==
    \/ \E s \in Slots : JoinStep(s, {TRUE})
    \/ PromotionStep({TRUE})

Spec == Init /\ [][Next]_vars

\* one join pipeline beside the admin commands
NextAdmin ==
    \/ JoinStep(1, BOOLEAN)
    \/ CmdStep

SpecAdmin == Init /\ [][NextAdmin]_vars

\* The steps a dispatched handler takes by itself: the event loop runs
\* every coroutine that is ready, every gateway call returns or raises
\* (the calls have timeouts), and asyncio.Lock wakes its waiters in turn.
JoinRun(s) ==
    \/ \E ok \in BOOLEAN : Approve(s, ok)
    \/ \E ok \in BOOLEAN : Persist(s, ok)
    \/ ReadPromo(s)
    \/ \E ok \in BOOLEAN : SendDirect(s, ok)
    \/ \E ok \in BOOLEAN : SendFallback(s, ok)
    \/ \E ok \in BOOLEAN : SendApprovalLog(s, ok)
    \/ JoinReturn(s)

CmdRun ==
    \/ UsersSection
    \/ DetailsSection
    \/ \E ok \in BOOLEAN : DetailsNoData(ok)
    \/ \E ok \in BOOLEAN : PromotionSection(ok)
    \/ BroadcastSection
    \/ \E ok \in BOOLEAN : Reply(ok)
    \/ \E ok \in BOOLEAN : Announce(ok)
    \/ \E uid \in Users, ok \in BOOLEAN : BroadcastSend(uid, ok)
    \/ \E ok \in BOOLEAN : Report(ok)
    \/ CmdReturn

FairHandlers(slots) ==
    /\ \A s \in slots : WF_vars(JoinRun(s))
    /\ \A s \in slots : SF_vars(AcquirePersist(s))
    /\ \A s \in slots : SF_vars(AcquirePromo(s))
    /\ WF_vars(CmdRun)
    /\ SF_vars(CmdAcquire)

SpecAdminFair == Init /\ [][NextAdmin]_vars /\ FairHandlers({1})

\* Two join pipelines beside /details commands, started without a file,
\* so that details_cmd finds no chats and replies inside the section
\* until a pipeline has recorded a join.  The requests are for one chat,
\* with and without from_user: the identity decides the path of a run
\* only by being 0 or not.
InitFair == InitFrom({MissingFile}) /\ InitRunner

NextFair ==
    \/ \E s \in Slots, u \in {1, NoUser} : JoinRequest(s, u, 10, "A")
    \/ \E s \in Slots : AcquirePersist(s)
    \/ \E s \in Slots : AcquirePromo(s)
    \/ \E s \in Slots : JoinRun(s)
    \/ \E caller \in Callers : Command("details", caller, "")
    \/ CmdAcquire
    \/ DetailsSection
    \/ \E ok \in BOOLEAN : DetailsNoData(ok)
    \/ \E ok \in BOOLEAN : Reply(ok)
    \/ CmdReturn

SpecFair == InitFair /\ [][NextFair]_vars /\ FairHandlers(Slots)

SpecRunner == Init /\ [][NextRunner]_vars

\* main() is synchronous: time.sleep(backoff) returns after backoff
\* seconds, and the next iteration of the loop calls run_polling().  How
\* long run_polling() polls is up to the listener.
SpecRunnerFair ==
    /\ Init
    /\ [][NextRunner]_vars
    /\ WF_vars(Wake)
    /\ WF_vars(RunPolling)

\* Start from a file that is well-formed JSON but has a chat entry without
\* "users" (load_data checks only the two top-level keys): the join
\* pipelines with failing writes, and the outer except clause they reach.
StoreNoUsers ==
    [promotion_message |-> "hi", chats |-> ("10" :> [title |-> "A"])]

InitOdd == InitFrom({JsonFile(StoreNoUsers)}) /\ InitRunner

NextOdd ==
    \E s \in Slots :
        \/ JoinStep(s, BOOLEAN)
        \/ \E ok \in BOOLEAN : SafeSendLog(s, ok)

SpecOdd == InitOdd /\ [][NextOdd]_vars

\* The files main() may find at a start: none, unreadable content, JSON
\* that is no object, and JSON objects with or without each of the two
\* keys and with a key of their own; the chat entries are as the program
\* writes them.
LoadFiles ==
    {MissingFile, MalformedFile, NonObjectFile}
    \cup {JsonFile(obj) : obj \in
            {<<>>, [promotion_message |-> "hi"], [chats |-> Store1.chats],
             [owner |-> "x"], [owner |-> "x", chats |-> Store1.chats],
             [owner |-> "x", promotion_message |-> "hi"],
             Store1, EmptyData}}

InitLoad == InitFrom(LoadFiles) /\ InitRunner

\* The process has ended and is started again: main() runs load_data()
\* on the PERSIST_FILE the ended process left (line 339); locks, handlers
\* and the locals of main() are new.
Restart ==
    /\ rpc = "exited"
    /\ DATA' = LoadData(FILE)
    /\ DATA_LOCK' = FALSE
    /\ jr' = [s \in Slots |-> IdleRun]
    /\ cmd' = IdleCmd
    /\ rpc' = "start"
    /\ backoff' = BackoffBase
    /\ restarts' = 0
    /\ slept' = <<>>
    /\ fault' = "none"
    /\ UNCHANGED <<FILE, DATA_CHANNEL_ID, LOG_CHANNEL_ID, njoins, ncmds,
                   nfailed>>

\* one process after the other: start, polling with a join pipeline and
\* promotion commands at work, clean exit, start again
NextLoad ==
    \/ RunPolling
    \/ CleanExit
    \/ Restart
    \/ rpc = "polling" /\ JoinStep(1, BOOLEAN)
    \/ rpc = "polling" /\ PromotionStep(BOOLEAN)

SpecLoad == InitLoad /\ [][NextLoad]_vars

(***************************************************************************)
(* Properties.                                                             *)
(***************************************************************************)
\* positions of a pipeline after its persist section has run
PastPersist == {"lock_promo", "promo", "dm", "fallback", "datalog", "done"}

\* positions of a pipeline after its notify stage is over
PastNotify == {"datalog", "done"}

\* the number of records of identity u in a users list
Count(us, u) == Cardinality({i \in 1..Len(us) : us[i].id = u})

\* C1: No duplicate records.  In every reachable state, whatever join
\* requests were handled, repeated or side by side, the users list of each
\* chat entry holds at most one record per identity.
C1_NoDuplicateRecords ==
    \A k \in DOMAIN DATA.chats :
        \A u \in Users \cup {NoUser} : Count(DATA.chats[k].users, u) <= 1

\* two pipelines in flight have both run their persist section for the
\* same identity and chat, which was not in the store at the start
C1_Witness ==
    /\ jr[1].pc = "lock_promo" /\ jr[2].pc = "lock_promo"
    /\ jr[1].user_id = 1 /\ jr[2].user_id = 1
    /\ jr[1].chat_id = 10 /\ jr[2].chat_id = 10
    /\ IdsOf(DATA.chats["10"].users) = {1}
    /\ Len(DATA.chats["10"].users) = 1

\* C2: Pipeline abort on approval failure.  Once the approve call of a
\* run for a requester has failed, no step of that run changes the store
\* or the file, and none asks the gateway for a direct message, a mention
\* or an approval log.
C2_AbortOnApprovalFailure ==
    [][\A s \in Slots :
         (/\ jr[s].pc \notin {"idle", "approve"}
          /\ jr[s].user_id # NoUser
          /\ ~jr[s].approved
          /\ jr'[s] # jr[s])
         => /\ DATA' = DATA
            /\ FILE' = FILE
            /\ jr'[s].dm_tried = 0
            /\ jr'[s].fb_tried = 0
            /\ jr'[s].log_tried = 0]_vars

\* C3: Fallback correctness.  Within one run the mention is posted exactly
\* once if the direct message failed or could not be attempted, never if
\* it succeeded, and the direct message is tried first.
C3_FallbackCorrectness ==
    \A s \in Slots :
        /\ jr[s].dm_tried <= 1 /\ jr[s].fb_tried <= 1
        /\ jr[s].dm_ok => jr[s].dm_tried = 1 /\ jr[s].fb_tried = 0
        /\ (jr[s].fb_tried = 1 /\ jr[s].user_id # 0) => jr[s].dm_tried = 1
        /\ jr[s].pc = "fallback" =>
              jr[s].dm_tried = (IF jr[s].user_id # 0 THEN 1 ELSE 0)
        /\ jr[s].pc \in PastNotify =>
              (jr[s].fb_tried = 1 <=> ~jr[s].dm_ok)

\* a run whose direct message failed has posted the mention and is done
C3_Witness ==
    \E s \in Slots :
        /\ jr[s].pc = "done"
        /\ jr[s].dm_tried = 1 /\ ~jr[s].dm_ok
        /\ jr[s].fb_tried = 1

\* identity u has a record in some chat entry of the store
IsMember(data, u) ==
    \E k \in DOMAIN data.chats : Count(data.chats[k].users, u) >= 1

C5_PartialBroadcastFailure ==
    /\ cmd.pc = "send" =>
          /\ cmd.todo # {}
          /\ cmd.sent + cmd.failed = Cardinality(cmd.recipients \ cmd.todo)
    /\ cmd.pc = "raised" => cmd.todo = {}
    /\ cmd.pc = "report" =>
          /\ cmd.todo = {}
          /\ \A u \in cmd.recipients : cmd.attempts[u] >= 1
          /\ cmd.sent = Cardinality(cmd.delivered)
          /\ cmd.failed = Cardinality(cmd.recipients \ cmd.delivered)
          /\ cmd.sent + cmd.failed = Cardinality(cmd.recipients)

\* a broadcast to two recipients is about to report one sent, one failed
C5_Witness ==
    /\ cmd.pc = "report"
    /\ Cardinality(cmd.recipients) = 2
    /\ cmd.sent = 1 /\ cmd.failed = 1

\* C6: Backoff growth.  The k-th sleep of the runner lasts
\* min(5 * 2^(k-1), 120), whatever the classes of the faults before it;
\* the interval stays within [5, 120] and never goes down.
C6_BackoffGrowth ==
    /\ \A k \in 1..Len(slept) :
          slept[k].interval = Min(BackoffBase * Pow2(k - 1), BackoffCap)
    /\ BackoffBase <= backoff /\ backoff <= BackoffCap
    /\ \A k \in 1..Len(slept) : slept[k].interval <= backoff

\* seven sleeps after faults of both classes, the last two capped
C6_Witness ==
    /\ Len(slept) = 7
    /\ slept[1].class = "Conflict" /\ slept[2].class = "Exception"
    /\ slept[3].class = "Conflict"
    /\ slept[1].interval = 5 /\ slept[2].interval = 10
    /\ slept[3].interval = 20
    /\ slept[6].interval = 120 /\ slept[7].interval = 120

\* C7: Title freshness.  The persist section of a join for a chat that has
\* an entry sets the title of that entry to the title of the request; if
\* the identity is a member already the users list of the entry is
\* unchanged; every other entry is unchanged.
C7_TitleFreshness ==
    [][\A s \in Slots :
         (/\ jr[s].pc = "persist" /\ jr'[s].pc = "lock_promo"
          /\ StrOf(jr[s].chat_id) \in DOMAIN DATA.chats)
         => LET key == StrOf(jr[s].chat_id) IN
            /\ DOMAIN DATA'.chats = DOMAIN DATA.chats
            /\ DATA'.chats[key].title = jr[s].channel_title
            /\ Count(DATA.chats[key].users, jr[s].user_id) >= 1
                  => DATA'.chats[key].users = DATA.chats[key].users
            /\ \A k \in DOMAIN DATA.chats \ {key} :
                  DATA'.chats[k] = DATA.chats[k]]_vars

\* member 1 of chat 10, stored under title "A", has joined again under
\* title "B"
C7_Witness ==
    \E s \in Slots :
        /\ jr[s].pc = "lock_promo"
        /\ jr[s].user_id = 1 /\ jr[s].chat_id = 10
        /\ jr[s].channel_title = "B"
        /\ "10" \in DOMAIN DATA.chats /\ "20" \in DOMAIN DATA.chats
        /\ DATA.chats["10"] =
              [title |-> "B", users |-> <<Record(1, 0), Record(2, 0)>>]
        /\ FILE.kind = "json" /\ FILE.json.chats["10"].title = "B"

\* the handlers inside `async with DATA_LOCK`
SlotHolds(s) == jr[s].pc \in {"persist", "promo"}
CmdHolds == cmd.pc \in {"section", "reply_nodata"}
Holders == {s \in Slots : SlotHolds(s)} \cup (IF CmdHolds THEN {0} ELSE {})

\* the handlers waiting for the gateway to answer a call
SlotAwaitsGateway(s) == jr[s].pc \in {"approve", "dm", "fallback", "datalog"}
CmdAwaitsGateway ==
    cmd.pc \in {"reply", "usage", "reply_nodata", "announce", "send",
                "report"}

\* C8: No lost updates under concurrency.  At most one handler is inside
\* the section at a time, and the lock is held exactly then; the store and
\* the file change only in a step of the handler inside the section; every
\* join whose persist section ran has its record in the store, and the
\* text of the last promotion command is the stored promotion text.
C8_NoLostUpdates ==
    /\ [](Cardinality(Holders) <= 1)
    /\ [](DATA_LOCK <=> Holders # {})
    /\ [](\A s \in Slots :
            (jr[s].pc \in PastPersist /\ jr[s].user_id # NoUser)
            => Count(UsersOf(DATA, jr[s].chat_id), jr[s].user_id) = 1)
    /\ []((cmd.kind = "promotion" /\ cmd.pc \in {"reply", "done", "raised"})
            => DATA.promotion_message = cmd.msg)
    /\ [][(DATA' # DATA \/ FILE' # FILE)
          => /\ Cardinality(Holders) = 1
             /\ Holders' = {}
             /\ \A s \in Slots : ~SlotHolds(s) => jr'[s] = jr[s]
             /\ ~CmdHolds => cmd' = cmd]_vars

\* two pipelines in flight have recorded different identities in chat 20,
\* which had no entry at the start, while a promotion command set its text
C8_Witness ==
    /\ jr[1].pc \in PastPersist /\ jr[2].pc \in PastPersist
    /\ jr[1].chat_id = 20 /\ jr[2].chat_id = 20
    /\ jr[1].user_id = 1 /\ jr[2].user_id = 2
    /\ Len(UsersOf(DATA, 20)) = 2
    /\ "10" \notin DOMAIN DATA.chats
    /\ cmd.kind = "promotion" /\ cmd.pc = "reply" /\ cmd.msg = "hi"
    /\ DATA.promotion_message = "hi"

\* C9: The exclusive section is never held across network I/O.  No
\* handler that waits for the gateway to answer is inside the section.
C9_NoLockAcrossIO ==
    /\ \A s \in Slots : ~(SlotAwaitsGateway(s) /\ SlotHolds(s))
    /\ ~(CmdAwaitsGateway /\ CmdHolds)

\* C10: Notification is advisory.  A run whose approve call succeeded runs
\* the persist section next; from then on the record of its requester is
\* in the store whatever the direct message and the mention do; after the
\* notify stage the run goes on to the approval log, which it posts iff
\* DATA_CHANNEL_ID is set; and no step of the notify and log stages
\* changes the store or the file.
C10_NotificationAdvisory ==
    /\ [](\A s \in Slots :
            (jr[s].approved /\ jr[s].pc # "idle")
            => /\ jr[s].pc \in {"lock_persist", "persist"} \cup PastPersist
               /\ jr[s].pc \in PastPersist =>
                     Count(UsersOf(DATA, jr[s].chat_id), jr[s].user_id) = 1
               /\ jr[s].pc = "done" =>
                     jr[s].log_tried = (IF DATA_CHANNEL_ID # 0 THEN 1 ELSE 0))
    /\ [][\A s \in Slots :
            (jr[s].approved /\ jr'[s] # jr[s])
            => /\ jr[s].pc = "lock_persist" => jr'[s].pc = "persist"
               /\ jr[s].pc = "persist" => jr'[s].pc = "lock_promo"
               /\ jr[s].pc \in {"dm", "fallback"} =>
                     /\ jr'[s].pc \in {"fallback", "datalog", "done"}
                     /\ jr'[s].pc = "done" => DATA_CHANNEL_ID = 0
               /\ jr[s].pc = "datalog" => jr'[s].pc = "done"
               /\ jr[s].pc \in {"dm", "fallback", "datalog"} =>
                     DATA' = DATA /\ FILE' = FILE]_vars

\* an approved run whose direct message failed and whose write failed has
\* posted the mention and the approval log; its record is in the store
C10_Witness ==
    \E s \in Slots :
        /\ jr[s].pc = "done" /\ jr[s].approved
        /\ jr[s].user_id = 2 /\ jr[s].chat_id = 20
        /\ ~jr[s].dm_ok /\ jr[s].fb_tried = 1 /\ jr[s].log_tried = 1
        /\ Count(UsersOf(DATA, 20), 2) = 1
        /\ nfailed = 1

\* the positions of a run of handle_join_request inside its own code
JoinPcs ==
    {"approve", "lock_persist", "persist", "lock_promo", "promo", "dm",
     "fallback", "datalog", "except", "done"}

\* C11: Fault isolation at the pipeline boundary.  Whichever of the
\* gateway calls of a run raise (approve, direct message, mention,
\* approval log, audit log) and whether or not its write fails, the run is
\* never left by an exception: after every failing call, failing write and
\* KeyError of the persist section the handler is at a position of its own
\* code, from its last position it returns, and then neither its slot nor
\* the lock is kept, so the next join request is dispatched and processed.
C11_FaultIsolation ==
    /\ [](\A s \in Slots : jr[s].pc \in JoinPcs \cup {"idle"})
    /\ []((\A s \in Slots : jr[s].pc \in {"idle", "done"}) => ~DATA_LOCK)
    /\ [][\A s \in Slots :
            (\/ jr'[s].faults > jr[s].faults
             \/ (SlotHolds(s) /\ nfailed' > nfailed)
             \/ jr'[s].pc = "except")
            => /\ jr'[s].pc \in JoinPcs \ {"approve"}
               /\ jr'[s].pc \in {"done", "except"} \/ jr[s].pc \notin
                     {"datalog", "except"}]_vars
    /\ [][\A s \in Slots :
            (jr[s].pc = "done" /\ jr'[s] # jr[s]) => jr'[s] = IdleRun]_vars

\* two join requests were dispatched and both handlers got to their end:
\* one ran the persist section for chat 20 with a failing write, the other
\* hit the KeyError of chat 10, its approve call and its audit log raised
C11_Witness ==
    /\ njoins = 2
    /\ jr[2] = IdleRun
    /\ jr[1].pc = "done" /\ jr[1].chat_id = 10
    /\ jr[1].audit_tried = 1 /\ jr[1].faults = 2
    /\ nfailed = 1
    /\ Len(UsersOf(DATA, 20)) = 1
    /\ FILE = JsonFile(StoreNoUsers)

\* what load_data() makes of a file: the empty default unless the file
\* holds a JSON object; of an object every key with its value, and the
\* empty default for each of the two keys the object lacks
LoadedFrom(file, data) ==
    IF file.kind # "json"
    THEN data = [promotion_message |-> "", chats |-> <<>>]
    ELSE /\ DOMAIN data = DOMAIN file.json \cup {"promotion_message", "chats"}
         /\ \A k \in DOMAIN file.json : data[k] = file.json[k]
         /\ "promotion_message" \notin DOMAIN file.json
               => data.promotion_message = ""
         /\ "chats" \notin DOMAIN file.json => DOMAIN data.chats = {}

C13_PersistFailureSwallowed ==
    /\ [][\A s \in Slots :
            (jr[s].pc = "persist" /\ nfailed' > nfailed)
            => /\ DATA' = RecordJoin(DATA, jr[s].chat_id,
                                     jr[s].channel_title, jr[s].user_id,
                                     jr[s].approved_at)
               /\ jr'[s] = [jr[s] EXCEPT !.pc = "lock_promo"]
               /\ ~DATA_LOCK']_vars
    /\ [][(cmd.pc = "section" /\ nfailed' > nfailed)
          => /\ DATA' = [DATA EXCEPT !.promotion_message = cmd.msg]
             /\ cmd' = [cmd EXCEPT !.pc = "reply"]
             /\ ~DATA_LOCK']_vars
    /\ [][\A s \in Slots :
            (jr[s].pc \in PastPersist /\ jr'[s] # jr[s])
            => /\ FILE' = FILE
               /\ jr[s].pc # "done" => jr'[s].pc \in PastPersist]_vars
    /\ [][(cmd.pc \in {"reply", "done", "raised"} /\ cmd' # cmd)
          => FILE' = FILE]_vars

\* the write of a join of identity 2 into chat 20 failed: the record is in
\* the store and not in the file, and the run has gone on to send the
\* direct message and the approval log
C13_Witness ==
    /\ nfailed = 1
    /\ jr[1].pc = "done" /\ jr[1].user_id = 2 /\ jr[1].chat_id = 20
    /\ jr[1].approved /\ jr[1].dm_ok /\ jr[1].log_tried = 1
    /\ Count(UsersOf(DATA, 20), 2) = 1
    /\ FILE.kind = "json" /\ Count(UsersOf(FILE.json, 20), 2) = 0
    /\ njoins = 1 /\ ncmds = 0

C15_RunnerLifecycle ==
    /\ [][rpc' = "exited" => rpc \in {"polling", "exited"}]_vars
    /\ [][rpc = "exited" => rpc' = "exited"]_vars
    /\ [][(rpc = "polling" /\ rpc' # rpc)
          => \/ rpc' = "exited" /\ slept' = slept
             \/ /\ rpc' = "sleep"
                /\ fault' \in {"Conflict", "Exception"}
                /\ slept' = Append(slept, [class |-> fault',
                                           interval |-> backoff])]_vars
    /\ [][(rpc = "sleep" /\ rpc' # rpc) => rpc' = "start"]_vars
    /\ [][(rpc = "start" /\ rpc' # rpc) => rpc' = "polling"]_vars
    /\ \A k \in 1..MaxRestarts :
          (rpc = "sleep" /\ restarts = k) ~> (rpc = "polling" /\ restarts = k)

\* the listener has faulted MaxRestarts times, with both classes among the
\* faults, was started again after each sleep, and has then exited
\* cleanly, which ended the loop
C15_Witness ==
    /\ rpc = "exited"
    /\ Len(slept) = MaxRestarts /\ restarts = MaxRestarts
    /\ slept[1].class = "Conflict" /\ slept[2].class = "Exception"
    /\ slept[MaxRestarts].class = "Exception"

\* C16: Broadcast works on a point-in-time snapshot.  The recipients of a
\* broadcast are the identities recorded when its section ran; from then
\* to the end of the command the set is the same whatever joins are
\* recorded meanwhile, the announced count is its size, only its members
\* are sent to, and sent + failed of the report is its size.
C16_BroadcastSnapshot ==
    /\ [][(cmd.pc = "section" /\ cmd.kind = "broadcast" /\ cmd' # cmd)
          => cmd'.recipients = Recipients(DATA.chats)]_vars
    /\ [][(cmd.pc \in {"announce", "send", "report"} /\ cmd'.pc # "idle")
          => cmd'.recipients = cmd.recipients]_vars
    /\ [](cmd.pc \in {"send", "report"} =>
            /\ cmd.announced = Cardinality(cmd.recipients)
            /\ cmd.todo \subseteq cmd.recipients
            /\ \A u \in Users \ cmd.recipients : cmd.attempts[u] = 0)
    /\ [](cmd.pc = "report" =>
            cmd.sent + cmd.failed = Cardinality(cmd.recipients))

\* a broadcast collected identity 1 alone; while it was announcing or
\* sending, a pipeline recorded identity 2; the loop is over with one send
C16_Witness ==
    /\ cmd.pc = "report"
    /\ cmd.recipients = {1} /\ cmd.announced = 1
    /\ cmd.sent + cmd.failed = 1
    /\ cmd.attempts[2] = 0
    /\ jr[1].pc \in PastPersist /\ jr[1].user_id = 2
    /\ IsMember(DATA, 2)

\* C17: Admins always get an outcome report.  Every promotion command of
\* an admin gets to its confirmation reply, every broadcast command of an
\* admin without text to the usage reply, and every broadcast command of
\* an admin with text to the reply with the counts, whatever the gateway
\* does to the calls before it.
C17_AdminOutcomeReport ==
    /\ (cmd.kind = "promotion" /\ cmd.pc = "lock")
          ~> (cmd.kind = "promotion" /\ cmd.pc = "reply")
    /\ [][(cmd.pc = "idle" /\ cmd'.kind = "broadcast" /\ cmd'.msg = "")
          => cmd'.pc = "usage"]_vars
    /\ (cmd.kind = "broadcast" /\ cmd.pc = "lock")
          ~> (cmd.kind = "broadcast" /\ cmd.pc = "report")

\* C18: Admin allow-list.  The handler of a users, details, promotion or
\* broadcast command whose caller is absent or not in ADMIN_IDS does
\* nothing but return: it never is at a position where a handler enters
\* the section, replies or sends, its dispatch and its return change
\* neither the store nor the file, and it has sent nothing.
C18_AdminAllowList ==
    /\ [](cmd.pc \notin {"idle", "denied"}
            => cmd.caller # NoCaller /\ cmd.caller \in ADMIN_IDS)
    /\ [](cmd.pc = "denied" =>
            /\ ~CmdHolds /\ ~CmdAwaitsGateway
            /\ \A u \in Users : cmd.attempts[u] = 0)
    /\ [][(cmd'.pc = "denied" \/ cmd.pc = "denied")
          => /\ cmd' # cmd => (DATA' = DATA /\ FILE' = FILE
                               /\ DATA_LOCK' = DATA_LOCK)
             /\ cmd.pc = "denied" => cmd'.pc \in {"denied", "idle"}]_vars

\* a /broadcast with text from a caller outside ADMIN_IDS was dispatched
\* while identities are recorded; its handler is about to return
C18_Witness ==
    /\ cmd.pc = "denied" /\ cmd.kind = "broadcast" /\ cmd.msg = "hi"
    /\ cmd.caller = 8
    /\ IsMember(DATA, 1)

\* list a is the beginning of list b
IsPrefix(a, b) == Len(a) <= Len(b) /\ SubSeq(b, 1, Len(a)) = a

\* C19: Members are append-only and insertion-ordered.  In every step of
\* every handler each chat entry of the store is still there afterwards,
\* and its users list begins with the users list it had: records are not
\* removed, moved or rewritten (a repeated join keeps the record and with
\* it the first approved_at), new ones come at the end, one at a time.
C19_MembersAppendOnly ==
    [][/\ DOMAIN DATA.chats \subseteq DOMAIN DATA'.chats
       /\ \A k \in DOMAIN DATA.chats :
             /\ IsPrefix(DATA.chats[k].users, DATA'.chats[k].users)
             /\ Len(DATA'.chats[k].users) <= Len(DATA.chats[k].users) + 1]_vars

\* identity 1, recorded in chat 10 by an earlier process, has joined
\* again and the persist section has run, after identity 2 was recorded
\* in chat 20: the record of the first join is as it was, the new record
\* of chat 20 is behind the old one
C19_Witness ==
    /\ jr[1].pc = "lock_promo"
    /\ jr[1].user_id = 1 /\ jr[1].chat_id = 10 /\ jr[1].approved_at = Now
    /\ DATA.chats["10"].users = <<Record(1, 0), Record(2, 0)>>
    /\ DATA.chats["20"].users = <<Record(1, 0), Record(2, Now)>>

\* C20: Pipeline termination.  With every ready coroutine run, every
\* gateway call returning or raising and the lock handed to its waiters
\* in turn, every run of the join pipeline gets to its end, whichever
\* calls fail and whatever the other pipeline and the /details commands
\* do; every handler that waits for the section gets into it; and the
\* lock is held only while a handler is inside the section, never by one
\* that has finished.
C20_PipelineTermination ==
    /\ \A s \in Slots : (jr[s].pc = "approve") ~> (jr[s].pc = "done")
    /\ \A s \in Slots : (jr[s].pc = "lock_persist") ~> (jr[s].pc = "persist")
    /\ \A s \in Slots : (jr[s].pc = "lock_promo") ~> (jr[s].pc = "promo")
    /\ (cmd.pc = "lock") ~> (cmd.pc = "section")
    /\ [](DATA_LOCK <=> Holders # {})
    /\ [](\A s \in Slots : jr[s].pc \in {"idle", "done"} => ~SlotHolds(s))
    /\ [](cmd.pc \in {"idle", "done", "raised", "denied"} => ~CmdHolds)

\* both pipelines wait for the section while details_cmd, inside it,
\* waits for the gateway to answer its reply
C20_Witness ==
    /\ cmd.pc = "reply_nodata" /\ DATA_LOCK
    /\ jr[1].pc = "lock_persist" /\ jr[2].pc = "lock_persist"
    /\ jr[1].faults = 1 /\ jr[2].faults = 0

=============================================================================
